---- MODULE Spec2Model ----
(***************************************************************************)
(* Model of the round scheduler of testrpc: src/src/runner.rs (run,        *)
(* process_round, load_endpoints).  The scheduler is one sequential        *)
(* control loop; every round is processed by a task handed to task::spawn, *)
(* which keeps running on its own once its JoinHandle is dropped.          *)
(* The cancellation signal (crate::ctx) is modelled by its contract: once  *)
(* requested it stays requested and every quit.recv() is ready.            *)
(***************************************************************************)
EXTENDS Integers, Sequences, FiniteSets, TLC

\* ---------------------------------------------------------------- bounds
MaxRounds == 2      \* longest configured rounds sequence
MaxIter == 3        \* largest configured iteration ceiling
MaxDispatch == 3    \* dispatches explored in a run (caps i, far below the u32 range)
MaxRequests == 2    \* cancellation requests explored

RoundIds == {"A", "B"}
Adapters == {"Hotshot", "Other"}

VARIABLES
    cfg,          \* config::Config: rounds, iterations (Option<u32>), adapter
    i,            \* global iteration counter (u32)
    r,            \* in-pass round counter; also the position of the for iterator
    pc,           \* position of run
    tasks,        \* the tasks handed to task::spawn, in spawn order
    results,      \* the Vec behind Arc<RwLock<..>>
    writer,       \* index of the task holding the write guard, 0 when free
    cancelled,    \* state of the cancellation signal read through quit.recv()
    requests,     \* number of cancellation requests made so far
    observed,     \* a quit.recv() branch of run has won a select!
    preCancelled, \* cancellation was requested before the first dispatch
    returned,     \* the vector run returned
    le,           \* one call of load_endpoints: backend answer, calls, return
    sig,          \* one call of wait_exit_signals (src/src/signal.rs)
    ctr           \* the u32 counter i of an unbounded run, as two 16-bit limbs

vars == <<cfg, i, r, pc, tasks, results, writer, cancelled, requests,
          observed, preCancelled, returned, le, sig, ctr>>

runVars == <<cfg, i, r, pc, tasks, results, writer, cancelled, requests,
             observed, preCancelled, returned>>
auxVars == <<le, sig, ctr>>

\* ----------------------------------------------------------------- helpers
None == [some |-> FALSE, val |-> 0]
Some(n) == [some |-> TRUE, val |-> n]

SeqsUpTo(S, n) == UNION {[1..m -> S] : m \in 0..n}

Configs ==
    [rounds : SeqsUpTo(RoundIds, MaxRounds),
     iterations : {None} \cup {Some(n) : n \in 0..MaxIter},
     adapter : Adapters]

\* hotshot::process_round: the backend's outcome for one round
HotshotProcessRound == {"Ok", "RoundError"}

\* process_round: dispatch on the adapter selector
process_round(adapter) ==
    IF adapter = "Hotshot" THEN HotshotProcessRound
    ELSE {"UnsupportedAdapter"}

\* the opaque RoundResults of one round, tagged with its origin
RoundResult(t) == [round |-> t.round, iteration |-> t.iteration]

\* the ceiling check written with > instead of >=
CeilingReachedStrict(n) == cfg.iterations.some /\ n > cfg.iterations.val

\* `if let Some(iterations) = cfg.iterations { if i >= iterations { break } }`
CeilingReached(n) == cfg.iterations.some /\ n >= cfg.iterations.val

\* quit.recv(): ready once cancellation has been requested, and ever after
QuitReady == cancelled

\* number of owners of the results Arc: run itself plus every live task
StrongCount == 1 + Cardinality({k \in 1..Len(tasks) : tasks[k].st # "finished"})

\* the code reached after leaving the for loop (lines 71-75): leave the outer
\* loop when the ceiling is reached, else start the next pass
AfterFor(n) ==
    IF CeilingReached(n)
    THEN pc' = "unwrap" /\ r' = r
    ELSE pc' = "for" /\ r' = 0

\* -------------------------------------------------------------------- Init
\* load_endpoints, wait_exit_signals and the counter study not in use
LeIdle == [backend |-> [ok |-> FALSE, val |-> <<>>], calls |-> 0,
           ret |-> [ok |-> FALSE, val |-> <<"pending">>]]
SigIdle == [pc |-> "idle", fails |-> {}, streams |-> {}, pending |-> {},
            arrived |-> <<>>, waited |-> FALSE, got |-> "none", ret |-> "none"]
\* a configuration for the studies in which run is not started
IdleCfg == [rounds |-> <<>>, iterations |-> None, adapter |-> "Hotshot"]
CtrIdle == [hi |-> 0, lo |-> 0, st |-> "idle", n |-> 0]

\* lines 25-27: the locals of run at its start
RunStart ==
    /\ i = 0
    /\ r = 0
    /\ pc = "for"
    /\ tasks = <<>>
    /\ results = <<>>
    /\ writer = 0
    /\ cancelled = FALSE
    /\ requests = 0
    /\ observed = FALSE
    /\ preCancelled = FALSE
    /\ returned = <<>>

Init ==
    /\ cfg \in Configs
    /\ RunStart
    /\ le = LeIdle
    /\ sig = SigIdle
    /\ ctr = CtrIdle

\* ------------------------------------------------------- scheduler actions
\* lines 31-41: take the next round, bump the counters, spawn the task
Dispatch ==
    /\ pc = "for"
    /\ r < Len(cfg.rounds)
    /\ i < MaxDispatch
    /\ i' = i + 1
    /\ r' = r + 1
    /\ tasks' = Append(tasks, [round |-> cfg.rounds[r + 1],
                               iteration |-> i + 1,
                               round_num |-> r + 1,
                               st |-> "spawned",
                               out |-> "none",
                               race |-> "pending"])
    /\ pc' = "select1"
    /\ UNCHANGED auxVars
    /\ UNCHANGED <<cfg, results, writer, cancelled, requests, observed,
                   preCancelled, returned>>

\* line 31 with the iterator exhausted, then lines 71-75
ForExhausted ==
    /\ pc = "for"
    /\ r = Len(cfg.rounds)
    /\ AfterFor(i)
    /\ UNCHANGED auxVars
    /\ UNCHANGED <<cfg, i, tasks, results, writer, cancelled, requests,
                   observed, preCancelled, returned>>

\* JoinWins with the handle never awaited: the branch wins while the task runs
JoinWinsEarly ==
    /\ pc = "select1"
    /\ tasks' = [tasks EXCEPT ![Len(tasks)].race = "join"]
    /\ pc' = "select2"
    /\ UNCHANGED auxVars
    /\ UNCHANGED <<cfg, i, r, results, writer, cancelled, requests, observed,
                   preCancelled, returned>>

\* JoinWins with a failed round leaving the loop instead of pausing
JoinWinsAbortOnError ==
    /\ pc = "select1"
    /\ tasks[Len(tasks)].st = "finished"
    /\ tasks' = [tasks EXCEPT ![Len(tasks)].race = "join"]
    /\ pc' = IF tasks[Len(tasks)].out = "Ok" THEN "select2" ELSE "unwrap"
    /\ UNCHANGED auxVars
    /\ UNCHANGED <<cfg, i, r, results, writer, cancelled, requests, observed,
                   preCancelled, returned>>

\* line 52: the JoinHandle branch of the first select! wins
JoinWins ==
    /\ pc = "select1"
    /\ tasks[Len(tasks)].st = "finished"
    /\ tasks' = [tasks EXCEPT ![Len(tasks)].race = "join"]
    /\ pc' = "select2"
    /\ UNCHANGED auxVars
    /\ UNCHANGED <<cfg, i, r, results, writer, cancelled, requests, observed,
                   preCancelled, returned>>

\* QuitWinsDispatch with the receive consuming the notification
QuitWinsDispatchConsume ==
    /\ pc = "select1"
    /\ QuitReady
    /\ tasks' = [tasks EXCEPT ![Len(tasks)].race = "quit"]
    /\ observed' = TRUE
    /\ cancelled' = FALSE
    /\ AfterFor(i)
    /\ UNCHANGED auxVars
    /\ UNCHANGED <<cfg, i, results, writer, requests, preCancelled, returned>>

\* lines 53-56: quit.recv() wins the first select!; break, then lines 71-75
QuitWinsDispatch ==
    /\ pc = "select1"
    /\ QuitReady
    /\ tasks' = [tasks EXCEPT ![Len(tasks)].race = "quit"]
    /\ observed' = TRUE
    /\ AfterFor(i)
    /\ UNCHANGED auxVars
    /\ UNCHANGED <<cfg, i, results, writer, cancelled, requests,
                   preCancelled, returned>>

\* lines 59-62: quit.recv() wins the second select!; break, then lines 71-75
QuitWinsPause ==
    /\ pc = "select2"
    /\ QuitReady
    /\ observed' = TRUE
    /\ AfterFor(i)
    /\ UNCHANGED auxVars
    /\ UNCHANGED <<cfg, i, tasks, results, writer, cancelled, requests,
                   preCancelled, returned>>

\* lines 63-69: the sleep wins; the in-loop ceiling check, and on break 71-75
SleepWins ==
    /\ pc = "select2"
    /\ IF CeilingReached(i)
       THEN AfterFor(i)
       ELSE pc' = "for" /\ r' = r
    /\ UNCHANGED auxVars
    /\ UNCHANGED <<cfg, i, tasks, results, writer, cancelled, requests,
                   observed, preCancelled, returned>>

\* lines 77-78: Arc::try_unwrap(results).unwrap().into_inner().unwrap()
Unwrap ==
    /\ pc = "unwrap"
    /\ IF StrongCount = 1
       THEN pc' = "done" /\ returned' = results
       ELSE pc' = "panicked" /\ returned' = returned
    /\ UNCHANGED auxVars
    /\ UNCHANGED <<cfg, i, r, tasks, results, writer, cancelled, requests,
                   observed, preCancelled>>

\* ------------------------------------------------------------ task actions
\* line 42: the spawned task is polled and calls process_round
TaskStart(k) ==
    /\ tasks[k].st = "spawned"
    /\ tasks' = [tasks EXCEPT ![k].st = "running"]
    /\ UNCHANGED auxVars
    /\ UNCHANGED <<cfg, i, r, pc, results, writer, cancelled, requests,
                   observed, preCancelled, returned>>

\* TaskOk writing without waiting for the lock to be free
TaskOkNoLock(k) ==
    /\ tasks[k].st = "running"
    /\ "Ok" \in process_round(cfg.adapter)
    /\ writer' = k
    /\ tasks' = [tasks EXCEPT ![k].st = "locked", ![k].out = "Ok"]
    /\ UNCHANGED auxVars
    /\ UNCHANGED <<cfg, i, r, pc, results, cancelled, requests, observed,
                   preCancelled, returned>>

\* lines 42-45: process_round returns Ok and the task takes the write lock
TaskOk(k) ==
    /\ tasks[k].st = "running"
    /\ "Ok" \in process_round(cfg.adapter)
    /\ writer = 0
    /\ writer' = k
    /\ tasks' = [tasks EXCEPT ![k].st = "locked", ![k].out = "Ok"]
    /\ UNCHANGED auxVars
    /\ UNCHANGED <<cfg, i, r, pc, results, cancelled, requests, observed,
                   preCancelled, returned>>

\* lines 46-47: push the result, drop the guard, the task ends
TaskPush(k) ==
    /\ tasks[k].st = "locked"
    /\ writer = k
    /\ results' = Append(results, RoundResult(tasks[k]))
    /\ writer' = 0
    /\ tasks' = [tasks EXCEPT ![k].st = "finished"]
    /\ UNCHANGED auxVars
    /\ UNCHANGED <<cfg, i, r, pc, cancelled, requests, observed,
                   preCancelled, returned>>

\* lines 48-50: process_round returns an error, it is logged, the task ends
TaskErr(k) ==
    /\ tasks[k].st = "running"
    /\ \E e \in process_round(cfg.adapter) \ {"Ok"} :
          tasks' = [tasks EXCEPT ![k].st = "finished", ![k].out = e]
    /\ UNCHANGED auxVars
    /\ UNCHANGED <<cfg, i, r, pc, results, writer, cancelled, requests,
                   observed, preCancelled, returned>>

\* ------------------------------------------------------------- environment
\* the cancellation request made on ctx by another part of the program
Request ==
    /\ requests < MaxRequests
    /\ pc \notin {"done", "panicked"}
    /\ cancelled' = TRUE
    /\ requests' = requests + 1
    /\ preCancelled' = (preCancelled \/ Len(tasks) = 0)
    /\ UNCHANGED auxVars
    /\ UNCHANGED <<cfg, i, r, pc, tasks, results, writer, observed, returned>>

Next ==
    \/ Dispatch
    \/ ForExhausted
    \/ JoinWins
    \/ QuitWinsDispatch
    \/ QuitWinsPause
    \/ SleepWins
    \/ Unwrap
    \/ \E k \in 1..Len(tasks) : TaskStart(k)
    \/ \E k \in 1..Len(tasks) : TaskOk(k)
    \/ \E k \in 1..Len(tasks) : TaskPush(k)
    \/ \E k \in 1..Len(tasks) : TaskErr(k)
    \/ Request

Spec == Init /\ [][Next]_vars

\* one step of some spawned task
TaskStep ==
    \E k \in 1..Len(tasks) :
        TaskStart(k) \/ TaskOk(k) \/ TaskPush(k) \/ TaskErr(k)

\* The runtime keeps polling run and every spawned task: a branch of a
\* select! that stays ready is taken, a sleep ends, a runnable task runs and
\* process_round returns.  Nothing obliges the environment to cancel.
Fairness ==
    /\ WF_vars(Dispatch)
    /\ WF_vars(ForExhausted)
    /\ WF_vars(JoinWins)
    /\ WF_vars(QuitWinsDispatch)
    /\ WF_vars(SleepWins \/ QuitWinsPause)
    /\ WF_vars(Unwrap)
    /\ WF_vars(TaskStep)

FairSpec == Spec /\ Fairness

\* a run whose context is never stopped: no request is made, so no
\* quit.recv() branch is ever ready
NoCancelNext ==
    \/ Dispatch
    \/ ForExhausted
    \/ JoinWins
    \/ SleepWins
    \/ Unwrap
    \/ \E k \in 1..Len(tasks) : TaskStart(k)
    \/ \E k \in 1..Len(tasks) : TaskOk(k)
    \/ \E k \in 1..Len(tasks) : TaskPush(k)
    \/ \E k \in 1..Len(tasks) : TaskErr(k)

NoCancelSpec == Init /\ [][NoCancelNext]_vars /\ Fairness

TypeOK ==
    /\ cfg \in Configs
    /\ i \in 0..MaxDispatch
    /\ r \in 0..Len(cfg.rounds)
    /\ pc \in {"for", "select1", "select2", "unwrap", "done", "panicked"}
    /\ writer \in 0..Len(tasks)
    /\ cancelled \in BOOLEAN
    /\ requests \in 0..MaxRequests

\* ----------------------------------------------------------- load_endpoints
MaxEndpoints == 2   \* longest endpoint list the backend answers with
Endpoints == {"e1", "e2"}

Pending == [ok |-> FALSE, val |-> <<"pending">>]
\* Err(TestflowError::UnsupportedAdapter(cfg.adapter.to_string()))
Unsupported(adapter) == [ok |-> FALSE, val |-> <<"UnsupportedAdapter", adapter>>]

\* hotshot::load_endpoints: Ok(endpoints) or the backend's own error
HotshotLoadEndpoints ==
    {[ok |-> TRUE, val |-> e] : e \in SeqsUpTo(Endpoints, MaxEndpoints)}
        \cup {[ok |-> FALSE, val |-> <<"ResolutionError">>]}

\* load_endpoints with the match falling through to the backend
load_endpoints_fallthrough(adapter, backend) ==
    [backend |-> backend, calls |-> 1, ret |-> backend]

\* lines 11-14: the match on cfg.adapter; backend is what hotshot answers
load_endpoints(adapter, backend) ==
    IF adapter = "Hotshot"
    THEN [backend |-> backend, calls |-> 1, ret |-> backend]
    ELSE [backend |-> backend, calls |-> 0, ret |-> Unsupported(adapter)]

LoadInit ==
    /\ cfg \in Configs
    /\ RunStart
    /\ le \in {[backend |-> b, calls |-> 0, ret |-> Pending] :
                  b \in HotshotLoadEndpoints}
    /\ sig = SigIdle
    /\ ctr = CtrIdle

\* lines 10-15: one call of load_endpoints(cfg)
LoadEndpoints ==
    /\ le.ret = Pending
    /\ le' = load_endpoints(cfg.adapter, le.backend)
    /\ UNCHANGED <<runVars, sig, ctr>>

LoadNext == LoadEndpoints

LoadSpec == LoadInit /\ [][LoadNext]_vars

\* -------------------------------------------------------- wait_exit_signals
MaxSignals == 2     \* signals delivered to the process

\* the three signal kinds, in the order their handlers are registered
Kinds == {"terminate", "interrupt", "quit"}
AfterRegister(kind) ==
    IF kind = "terminate" THEN "interrupt"
    ELSE IF kind = "interrupt" THEN "quit"
    ELSE "select"

SignalInit ==
    /\ cfg = IdleCfg
    /\ RunStart
    /\ le = LeIdle
    /\ ctr = CtrIdle
    /\ sig \in {[pc |-> "terminate", fails |-> f, streams |-> {},
                 pending |-> {}, arrived |-> <<>>, waited |-> FALSE,
                 got |-> "none", ret |-> "none"] : f \in SUBSET Kinds}

\* Register with the error of signal() dropped instead of returned by `?`
RegisterIgnoreError(kind) ==
    /\ sig.pc = kind
    /\ sig' = [sig EXCEPT !.streams = IF kind \in sig.fails THEN @
                                      ELSE @ \cup {kind},
                          !.pc = AfterRegister(kind),
                          !.waited = (AfterRegister(kind) = "select")]
    /\ UNCHANGED <<runVars, le, ctr>>

\* signal.rs lines 7-12: signal(SignalKind::kind()).map_err(..)?
Register(kind) ==
    /\ sig.pc = kind
    /\ IF kind \in sig.fails
       THEN sig' = [sig EXCEPT !.pc = "returned",
                               !.ret = "TerminationError",
                               !.streams = {},
                               !.pending = {}]
       ELSE sig' = [sig EXCEPT !.streams = @ \cup {kind},
                               !.pc = AfterRegister(kind),
                               !.waited = (AfterRegister(kind) = "select")]
    /\ UNCHANGED <<runVars, le, ctr>>

\* signal.rs lines 14-26: the branch of kind wins the select!, then Ok(())
Recv(kind) ==
    /\ sig.pc = "select"
    /\ kind \in sig.pending
    /\ sig' = [sig EXCEPT !.pc = "returned", !.ret = "Ok", !.got = kind,
                          !.streams = {}, !.pending = {}]
    /\ UNCHANGED <<runVars, le, ctr>>

\* a signal of kind reaches the process while a handler for it is installed;
\* it is recorded for the stream if the function still holds one
Deliver(kind) ==
    /\ sig.pc # "idle"
    /\ kind \in sig.streams \/ sig.pc = "returned"
    /\ Len(sig.arrived) < MaxSignals
    /\ sig' = [sig EXCEPT !.arrived = Append(@, kind),
                          !.pending = IF kind \in sig.streams
                                      THEN @ \cup {kind} ELSE @]
    /\ UNCHANGED <<runVars, le, ctr>>

SignalNext ==
    \/ \E kind \in Kinds : Register(kind)
    \/ \E kind \in Kinds : Recv(kind)
    \/ \E kind \in Kinds : Deliver(kind)

\* the function keeps running: a registration completes and a ready branch
\* of the select! is taken; nothing obliges a signal to arrive
SignalSpec ==
    /\ SignalInit /\ [][SignalNext]_vars
    /\ WF_vars(\E kind \in Kinds : Register(kind))
    /\ WF_vars(\E kind \in Kinds : Recv(kind))

\* ------------------------------------------------------- the u32 counter i
\* `let mut i: u32` holds 32 bits; it is kept here as two 16-bit limbs, the
\* value being hi * 2^16 + lo.  Dispatch above follows the same counter over
\* its first MaxDispatch values, where hi = 0 and lo = i.
U16Mod == 65536
CtrEdge == 2        \* limb values explored next to 0 and next to 2^16 - 1
MaxIncr == 3        \* increments followed from a starting value

EdgeLimbs == (0..CtrEdge) \cup ((U16Mod - 1 - CtrEdge)..(U16Mod - 1))

U32Less(a, b) == a.hi < b.hi \/ (a.hi = b.hi /\ a.lo < b.lo)

\* `i += 1` on a u32 (line 35).  At u32::MAX the addition overflows: a build
\* with overflow checks panics, a build without them wraps to 0.
u32_add_one(c) ==
    IF c.lo < U16Mod - 1
    THEN {[c EXCEPT !.lo = @ + 1, !.n = @ + 1]}
    ELSE IF c.hi < U16Mod - 1
    THEN {[c EXCEPT !.hi = @ + 1, !.lo = 0, !.n = @ + 1]}
    ELSE {[c EXCEPT !.hi = 0, !.lo = 0, !.n = @ + 1],
          [c EXCEPT !.st = "panicked", !.n = @ + 1]}

\* the counter at some point of a run with no ceiling: any u32 value is
\* reached after that many dispatches
CounterInit ==
    /\ cfg = IdleCfg
    /\ RunStart
    /\ le = LeIdle
    /\ sig = SigIdle
    /\ ctr \in {[hi |-> h, lo |-> l, st |-> "ok", n |-> 0] :
                   h \in EdgeLimbs, l \in EdgeLimbs}

\* line 35 of one more dispatch of the unbounded run
Increment ==
    /\ ctr.st = "ok"
    /\ ctr.n < MaxIncr
    /\ ctr' \in u32_add_one(ctr)
    /\ UNCHANGED <<runVars, le, sig>>

CounterNext == Increment

CounterSpec == CounterInit /\ [][CounterNext]_vars

\* ------------------------------------------------------- claim vocabulary
Range(s) == {s[k] : k \in 1..Len(s)}
NoCancel == requests = 0
NoFailure == \A k \in 1..Len(tasks) : tasks[k].out \in {"none", "Ok"}
Terminated == pc \in {"unwrap", "done"}
Ceiling == cfg.iterations.val
\* position in the configured sequence of the k-th dispatch
Pos(k) == ((k - 1) % Len(cfg.rounds)) + 1
\* the results of the successful ones among the first n tasks, in spawn order
RECURSIVE OkResults(_)
OkResults(n) ==
    IF n = 0 THEN <<>>
    ELSE IF tasks[n].out = "Ok"
         THEN Append(OkResults(n - 1), RoundResult(tasks[n]))
         ELSE OkResults(n - 1)

\* C1: once run has observed cancellation (a quit.recv() branch won), no
\* further task is spawned and i is not incremented again.
C1_NoDispatchAfterCancel ==
    [][observed => (i' = i /\ Len(tasks') = Len(tasks))]_vars

\* C2: when cancellation has won a race, run is at its drain-and-return
\* (Terminated) and nowhere else, whatever the ceiling.
C2_CancelGoesToTerminated ==
    observed => Terminated

\* C3: with a ceiling N (N = 0 included) the counter i never exceeds N and
\* run returns at most N results.
C3_CeilingBound ==
    cfg.iterations.some => (i <= Ceiling /\ Len(returned) <= Ceiling)

\* C4: if cancellation was requested before the first dispatch, no task ever
\* calls process_round, nothing is collected and run returns an empty vector.
C4_PreCancelledNoAdapterCall ==
    preCancelled =>
        /\ \A k \in 1..Len(tasks) : tasks[k].st = "spawned"
        /\ results = <<>>
        /\ pc # "panicked"

\* C5: once a dispatch has reported UnsupportedAdapter no further round is
\* dispatched and run does not return a result vector.
C5_UnsupportedAdapterAborts ==
    \A k \in 1..Len(tasks) :
        tasks[k].out = "UnsupportedAdapter" => (Len(tasks) = k /\ pc # "done")

\* C6: no result of a round abandoned on cancellation is in the collection or
\* in the returned vector, and the collection never holds more entries than
\* there are successful rounds that were not abandoned.
C6_AbandonedResultDiscarded ==
    /\ \A k \in 1..Len(tasks) :
          tasks[k].race = "quit" =>
              RoundResult(tasks[k]) \notin (Range(results) \cup Range(returned))
    /\ Len(results) <=
          Cardinality({k \in 1..Len(tasks) :
                          tasks[k].out = "Ok" /\ tasks[k].race # "quit"})

\* C7: when run drains the collection every spawned task has finished, so
\* Arc::try_unwrap succeeds and nothing is appended after the drain.
C7_DrainAfterAllTasksFinished ==
    /\ pc = "unwrap" => StrongCount = 1
    /\ pc # "panicked"
    /\ pc = "done" => returned = results

\* C8: with a ceiling N, no failed round and no cancellation, run returns
\* exactly N results.
C8_ExactlyNResults ==
    (cfg.iterations.some /\ NoCancel /\ NoFailure /\ pc = "done")
        => Len(returned) = Ceiling

\* C9: with non-empty rounds of length L, a ceiling N, no failure and no
\* cancellation, dispatch k is the round at position ((k-1) mod L)+1 with
\* iteration number k and that round number, it starts only after dispatch
\* k-1 has resolved, and the returned results are in dispatch order (N of
\* them when N >= 1).
C9_DispatchOrder ==
    (cfg.iterations.some /\ Len(cfg.rounds) > 0 /\ NoCancel /\ NoFailure) =>
        /\ \A k \in 1..Len(tasks) :
              /\ tasks[k].iteration = k
              /\ tasks[k].round_num = Pos(k)
              /\ tasks[k].round = cfg.rounds[Pos(k)]
        /\ \A k \in 1..(Len(tasks) - 1) :
              tasks[k].st = "finished" /\ tasks[k].race = "join"
        /\ pc = "done" =>
              /\ returned = [k \in 1..Len(tasks) |-> RoundResult(tasks[k])]
              /\ Ceiling >= 1 => Len(returned) = Ceiling

\* a run of three dispatches over two rounds has returned
C9_Witness ==
    /\ pc = "done" /\ NoCancel /\ NoFailure
    /\ cfg.iterations.some /\ Len(cfg.rounds) = 2 /\ Len(returned) = 3
    /\ cfg.rounds[1] # cfg.rounds[2]

\* C10: absent cancellation a failed round does not end the run: run leaves
\* its loop only with i at the ceiling (failed rounds counted), and returns
\* exactly the results of the successful rounds, none for a failed one.
C10_FailedRoundContinues ==
    NoCancel =>
        /\ Terminated => (cfg.iterations.some /\ i >= Ceiling)
        /\ (Terminated /\ Ceiling >= 1) => i = Ceiling
        /\ pc = "done" => returned = OkResults(Len(tasks))
        /\ \A k \in 1..(Len(tasks) - 1) : tasks[k].race = "join"

\* a run has returned in which a failed round was followed by a successful one
C10_Witness ==
    /\ pc = "done" /\ NoCancel
    /\ \E k \in 1..(Len(tasks) - 1) :
          tasks[k].out = "RoundError" /\ tasks[k + 1].out = "Ok"
    /\ Len(returned) < Len(tasks)

C15_OneRoundInFlight ==
    Cardinality({k \in 1..Len(tasks) : tasks[k].st = "running"}) <= 1

\* C16: at most one task is inside the append at a time, it is the holder of
\* the write guard, and the collection holds exactly one entry for every task
\* that completed its append (none lost, none duplicated).
C16_AppendExclusiveLossless ==
    /\ Cardinality({k \in 1..Len(tasks) : tasks[k].st = "locked"}) <= 1
    /\ \A k \in 1..Len(tasks) : tasks[k].st = "locked" <=> writer = k
    /\ Len(results) =
          Cardinality({k \in 1..Len(tasks) :
                          tasks[k].st = "finished" /\ tasks[k].out = "Ok"})
    /\ Range(results) =
          {RoundResult(tasks[k]) :
              k \in {j \in 1..Len(tasks) :
                        tasks[j].st = "finished" /\ tasks[j].out = "Ok"}}

\* a task holds the write guard while another has appended and a third
\* party, a still running task, is about to contend for the lock
C16_Witness ==
    \E j, k \in 1..Len(tasks) :
        /\ j # k
        /\ tasks[j].st = "locked"
        /\ tasks[k].st = "running"
        /\ Len(results) >= 1

\* C11: with an empty rounds sequence run terminates, whatever the ceiling.
\* (With no round, ForExhausted below the ceiling leads back to the very same
\* state: the empty pass of lines 28-31 and 71-76 changes no variable and
\* polls nothing, so a run that repeats it forever shows as a run that stays
\* in that state.)
C11_EmptyRoundsTerminate ==
    <>(Len(cfg.rounds) # 0 \/ pc = "done")

C12_Pre == Len(cfg.rounds) > 0 /\ cfg.iterations.some /\ Ceiling >= 1
C12_Done ==
    pc = "done" /\ i = Ceiling /\ Len(tasks) = Ceiling /\ r = Pos(Ceiling)

\* C12: with non-empty rounds, a ceiling N >= 1, every process_round call
\* completing and no cancellation, run eventually returns, after exactly N
\* dispatches, the last one at position ((N-1) mod L)+1 of its pass.
C12_TerminatesAfterN ==
    <>(~C12_Pre \/ ~NoCancel \/ C12_Done)

\* run has returned after three dispatches over two rounds, in mid-pass
C12_Witness ==
    /\ C12_Pre /\ NoCancel /\ C12_Done
    /\ Len(cfg.rounds) = 2 /\ Ceiling = 3 /\ r = 1

\* C13: load_endpoints answers UnsupportedAdapter for every selector but
\* Hotshot, without calling the backend; for Hotshot it calls the backend once
\* and returns exactly its answer, endpoints or error.
C13_LoadEndpoints ==
    le.ret # Pending =>
        IF cfg.adapter = "Hotshot"
        THEN le.ret = le.backend /\ le.calls = 1
        ELSE le.ret = Unsupported(cfg.adapter) /\ le.calls = 0

\* load_endpoints has returned for an unregistered selector although the
\* backend would have resolved two endpoints
C13_Witness ==
    /\ le.ret # Pending /\ cfg.adapter # "Hotshot"
    /\ le.backend.ok /\ Len(le.backend.val) = 2

\* C18: wait_exit_signals returns once and its result stands: Ok only when
\* all three handlers were registered and a signal has arrived, whichever of
\* the three, and then it does return Ok; TerminationError when a
\* registration fails, without ever waiting; later signals change nothing.
C18_WaitExitSignals ==
    /\ [](/\ sig.ret = "Ok" =>
                (sig.fails = {} /\ sig.waited
                    /\ \E n \in 1..Len(sig.arrived) : sig.arrived[n] = sig.got)
          /\ sig.ret = "TerminationError" => (sig.fails # {} /\ ~sig.waited)
          /\ sig.fails # {} => (sig.ret # "Ok" /\ sig.pc # "select")
          /\ sig.ret # "none" <=> sig.pc = "returned")
    /\ [][sig.ret # "none" => sig'.ret = sig.ret]_vars
    /\ \A kind \in Kinds :
          (sig.pc = "select" /\ kind \in sig.pending) ~> (sig.ret = "Ok")
    /\ (sig.fails # {} /\ sig.pc # "idle") ~> (sig.ret = "TerminationError")

\* Ok has been returned and a further signal has arrived since
C18_Witness ==
    sig.ret = "Ok" /\ sig.got = "quit" /\ Len(sig.arrived) >= 2

\* C17: the counter i only increases: every dispatch leaves it strictly
\* larger than before, without overflow and without wrapping around.
C17_CounterOnlyIncreases ==
    [][ctr' # ctr => (ctr'.st = "ok" /\ U32Less(ctr, ctr'))]_vars
====
